---- MODULE Spec2Model ----
(***************************************************************************)
(* Model of the CSV ingestion and normalisation engine of the sales        *)
(* dashboard (services/spreadsheetService: fetchSalesData, parseCSV,       *)
(* splitLine, getVal, parseNumber).  Strings are sequences of characters;  *)
(* a character is a                                                        *)
(* one-character string, or a name for a character with no ASCII glyph     *)
(* ("LF", "CR", "TAB", "BOM").  Array indexes keep their JavaScript        *)
(* values (0-based, -1 for "not found").                                   *)
(***************************************************************************)
EXTENDS Integers, Sequences, FiniteSets, TLC, Bags

VARIABLES
    csv,        \* parseCSV: the argument text
    pc,         \* parseCSV: position in the function body
    lines,      \* parseCSV: the non-blank lines
    separator,  \* parseCSV: the detected separator, which splitLine captures
    headers,    \* parseCSV: the normalised header cells
    idx,        \* parseCSV: the column index of each semantic field
    records,    \* parseCSV: the records mapped so far (before the filter)
    result,     \* parseCSV: the returned array
    raised,     \* parseCSV: TRUE when the call ended in an exception
    line,       \* splitLine: the argument line
    loop,       \* splitLine: the locals i, current, inQuotes, result
    met,        \* splitLine: separators examined while inQuotes was false
    fields,     \* splitLine: the returned array
    val,        \* parseNumber: the argument
    num,        \* parseNumber: the returned number
    response,   \* fetchSalesData: what fetch and response.text() gave
    variant,    \* the other parseCSV (lines 117-185): its mapped and returned arrays
    app,        \* App: the useState values of the component
    pending,    \* App: the fetches and file reads in flight
    shown       \* App: the messages shown by alert, in order

vars == <<csv, pc, lines, separator, headers, idx, records, result, raised,
          line, loop, met, fields, val, num, response, variant, app, pending,
          shown>>

csvVars == <<csv, pc, lines, separator, headers, idx, records, result, raised>>
splitVars == <<line, loop, met, fields>>
numVars == <<val, num>>
fetchVars == <<response>>
variantVars == <<variant>>
appVars == <<app, pending, shown>>

----------------------------------------------------------------------------
(* Characters *)

DQ == "\""
LF == "LF"
CR == "CR"
TAB == "TAB"
BOM == "BOM"

Digit == {"0", "1", "2", "3", "4", "5", "6", "7", "8", "9"}

DigitVal(c) ==
    CASE c = "0" -> 0 [] c = "1" -> 1 [] c = "2" -> 2 [] c = "3" -> 3
      [] c = "4" -> 4 [] c = "5" -> 5 [] c = "6" -> 6 [] c = "7" -> 7
      [] c = "8" -> 8 [] c = "9" -> 9

\* the characters String.prototype.trim removes
WhiteSpace == {" ", TAB, CR, LF, BOM}

LowerLetter == {"a", "b", "c", "d", "e", "f", "g", "h", "i", "j", "k", "l", "m",
                "n", "o", "p", "q", "r", "s", "t", "u", "v", "w", "x", "y", "z"}

\* the value of an out-of-range read: of a character, of an array element
Undefined == "undefined"
undefinedValue == <<Undefined>>

----------------------------------------------------------------------------
(* String primitives *)

RECURSIVE trimStart(_)
trimStart(s) ==
    IF s # <<>> /\ Head(s) \in WhiteSpace THEN trimStart(Tail(s)) ELSE s

RECURSIVE trimEnd(_)
trimEnd(s) ==
    IF s # <<>> /\ s[Len(s)] \in WhiteSpace
    THEN trimEnd(SubSeq(s, 1, Len(s) - 1))
    ELSE s

trim(s) == trimEnd(trimStart(s))

\* s.replace(/X/g, '') for a character class X
RECURSIVE removeAll(_, _)
removeAll(s, class) ==
    IF s = <<>> THEN <<>>
    ELSE IF Head(s) \in class THEN removeAll(Tail(s), class)
    ELSE <<Head(s)>> \o removeAll(Tail(s), class)

\* s.replace(/[^X]/g, '') for a character class X
RECURSIVE keepOnly(_, _)
keepOnly(s, class) ==
    IF s = <<>> THEN <<>>
    ELSE IF Head(s) \in class THEN <<Head(s)>> \o keepOnly(Tail(s), class)
    ELSE keepOnly(Tail(s), class)

\* s.replace(c, d): only the first occurrence of a string pattern is replaced
RECURSIVE replaceFirst(_, _, _)
replaceFirst(s, c, d) ==
    IF s = <<>> THEN <<>>
    ELSE IF Head(s) = c THEN <<d>> \o Tail(s)
    ELSE <<Head(s)>> \o replaceFirst(Tail(s), c, d)

\* (s.match(/c/g) || []).length
RECURSIVE countChar(_, _)
countChar(s, c) ==
    IF s = <<>> THEN 0
    ELSE (IF Head(s) = c THEN 1 ELSE 0) + countChar(Tail(s), c)

\* h.includes(sub)
includes(h, sub) ==
    \E k \in 0..(Len(h) - Len(sub)) : SubSeq(h, k + 1, k + Len(sub)) = sub

\* csv.replace(/^\uFEFF/, '')
stripBOM(s) == IF s # <<>> /\ Head(s) = BOM THEN Tail(s) ELSE s

\* s.split(/\r?\n/): the pieces from position start on; a CR right before
\* the LF belongs to the terminator
RECURSIVE splitNewlinesFrom(_, _)
splitNewlinesFrom(s, start) ==
    LET ends == {j \in start..Len(s) : s[j] = LF} IN
    IF ends = {} THEN <<SubSeq(s, start, Len(s))>>
    ELSE LET i == CHOOSE j \in ends : \A m \in ends : j <= m IN
         <<SubSeq(s, start, IF i > start /\ s[i - 1] = CR THEN i - 2 ELSE i - 1)>>
             \o splitNewlinesFrom(s, i + 1)

splitNewlines(s) == splitNewlinesFrom(s, 1)

\* the test of line 25 without trim: only the empty line is blank
IsBlankEmptyOnly(l) == l = <<>>

\* l.trim() === '', line 25
IsBlank(l) == trim(l) = <<>>

nonBlankLines(text) ==
    SelectSeq(splitNewlines(stripBOM(text)), LAMBDA l : ~IsBlank(l))

----------------------------------------------------------------------------
(* splitLine, lines 34-54 *)

splitInit == [i |-> 0, current |-> <<>>, inQuotes |-> FALSE, result |-> <<>>]

\* line[i], undefined past the end
charAt(ln, i) == IF i >= 0 /\ i < Len(ln) THEN ln[i + 1] ELSE Undefined

\* the loop body splitting at every separator, quoted or not
splitBodyQuoteBlind(st, ln, dl) ==
    LET char == charAt(ln, st.i) IN
    IF char = DQ /\ charAt(ln, st.i + 1) = DQ
    THEN [st EXCEPT !.current = Append(@, DQ), !.i = @ + 2]
    ELSE IF char = DQ
    THEN [st EXCEPT !.inQuotes = ~@, !.i = @ + 1]
    ELSE IF char = dl
    THEN [st EXCEPT !.result = Append(@, trim(st.current)),
                    !.current = <<>>, !.i = @ + 1]
    ELSE [st EXCEPT !.current = Append(@, char), !.i = @ + 1]

\* one iteration of the for loop, the i++ included
splitBody(st, ln, dl) ==
    LET char == charAt(ln, st.i) IN
    IF char = DQ /\ charAt(ln, st.i + 1) = DQ
    THEN [st EXCEPT !.current = Append(@, DQ), !.i = @ + 2]
    ELSE IF char = DQ
    THEN [st EXCEPT !.inQuotes = ~@, !.i = @ + 1]
    ELSE IF char = dl /\ ~st.inQuotes
    THEN [st EXCEPT !.result = Append(@, trim(st.current)),
                    !.current = <<>>, !.i = @ + 1]
    ELSE [st EXCEPT !.current = Append(@, char), !.i = @ + 1]

RECURSIVE splitRun(_, _, _)
splitRun(st, ln, dl) ==
    IF st.i < Len(ln) THEN splitRun(splitBody(st, ln, dl), ln, dl)
    ELSE st

\* the push after the loop
splitEnd(st) == Append(st.result, trim(st.current))

splitLine(ln, dl) == splitEnd(splitRun(splitInit, ln, dl))

----------------------------------------------------------------------------
(* Numbers.  A finite number is [m |-> mantissa, e |-> decimals], denoting  *)
(* m / 10^e, kept canonical: e = 0 or m is not a multiple of 10.  The      *)
(* inputs are short enough for every value to be exact in a double.        *)

Zero == [m |-> 0, e |-> 0]

\* not a number: no finite number has negative decimals
NaN == [m |-> 0, e |-> 0 - 1]

RECURSIVE canon(_)
canon(n) ==
    IF n.e > 0 /\ n.m % 10 = 0 THEN canon([m |-> n.m \div 10, e |-> n.e - 1])
    ELSE n

\* the value of a string of digits
RECURSIVE digitsValue(_, _)
digitsValue(s, acc) ==
    IF s = <<>> THEN acc ELSE digitsValue(Tail(s), 10 * acc + DigitVal(Head(s)))

\* the longest prefix of s made of digits
RECURSIVE digitPrefix(_)
digitPrefix(s) ==
    IF s # <<>> /\ Head(s) \in Digit THEN <<Head(s)>> \o digitPrefix(Tail(s))
    ELSE <<>>

dropFirst(s, n) == SubSeq(s, n + 1, Len(s))

\* parseFloat: leading white space, a sign, then the longest prefix that is
\* a decimal literal; NaN when that prefix has no digit.  (No exponent and
\* no "Infinity": the letters are removed before parseFloat is called.)
parseFloat(str) ==
    LET s0 == trimStart(str)
        neg == s0 # <<>> /\ Head(s0) = "-"
        s1 == IF s0 # <<>> /\ Head(s0) \in {"-", "+"} THEN Tail(s0) ELSE s0
        ip == digitPrefix(s1)
        s2 == dropFirst(s1, Len(ip))
        fp == IF s2 # <<>> /\ Head(s2) = "." THEN digitPrefix(Tail(s2)) ELSE <<>>
        mag == digitsValue(ip \o fp, 0)
    IN  IF ip = <<>> /\ fp = <<>> THEN NaN
        ELSE canon([m |-> IF neg THEN 0 - mag ELSE mag, e |-> Len(fp)])

\* parseInt(str) in radix 10: white space, a sign, then the digits
parseInt(str) ==
    LET s0 == trimStart(str)
        neg == s0 # <<>> /\ Head(s0) = "-"
        s1 == IF s0 # <<>> /\ Head(s0) \in {"-", "+"} THEN Tail(s0) ELSE s0
        ip == digitPrefix(s1)
    IN  IF ip = <<>> THEN NaN
        ELSE [m |-> IF neg THEN 0 - digitsValue(ip, 0) ELSE digitsValue(ip, 0),
              e |-> 0]

\* x || 0 for a number x: NaN, 0 and -0 are falsy
orZero(x) == IF x = NaN \/ x.m = 0 THEN Zero ELSE x

\* parseNumber without the removal of the points
parseNumberKeepPoints(v) ==
    IF v = undefinedValue \/ v = <<>> THEN Zero
    ELSE LET normalized ==
                 keepOnly(replaceFirst(v, ",", "."), Digit \cup {".", "-"})
         IN  orZero(parseFloat(normalized))

\* the number parse of the other variant of the service (line 170): the
\* characters other than digits, '.' and '-' are stripped before the comma
\* is looked for
parseNumberStripFirst(v) ==
    IF v = undefinedValue THEN Zero
    ELSE orZero(parseFloat(replaceFirst(keepOnly(v, Digit \cup {".", "-"}), ",", ".")))

\* parseNumber, lines 77-81
parseNumber(v) ==
    IF v = undefinedValue \/ v = <<>> THEN Zero
    ELSE LET normalized ==
                 keepOnly(replaceFirst(removeAll(v, {"."}), ",", "."),
                          Digit \cup {".", "-"})
         IN  orZero(parseFloat(normalized))

Positive(n) == n.m > 0

----------------------------------------------------------------------------
(* Header normalisation, lines 56-61 *)

UpperLetters == <<"A", "B", "C", "D", "E", "F", "G", "H", "I", "J", "K", "L", "M",
                  "N", "O", "P", "Q", "R", "S", "T", "U", "V", "W", "X", "Y", "Z">>
LowerLetters == <<"a", "b", "c", "d", "e", "f", "g", "h", "i", "j", "k", "l", "m",
                  "n", "o", "p", "q", "r", "s", "t", "u", "v", "w", "x", "y", "z">>

\* the accented letters of the model: "e_acute" is U+00E9, "E_ACUTE" U+00C9,
\* "a_tilde" U+00E3, "A_TILDE" U+00C3; the combining marks U+0301, U+0303
COMB_ACUTE == "COMB_ACUTE"
COMB_TILDE == "COMB_TILDE"
CombiningMarks == {COMB_ACUTE, COMB_TILDE}

toLowerChar(c) ==
    IF \E k \in 1..26 : UpperLetters[k] = c
    THEN LowerLetters[CHOOSE k \in 1..26 : UpperLetters[k] = c]
    ELSE IF c = "E_ACUTE" THEN "e_acute"
    ELSE IF c = "A_TILDE" THEN "a_tilde"
    ELSE c

\* the canonical decomposition of one character
nfdChar(c) ==
    CASE c = "e_acute" -> <<"e", COMB_ACUTE>>
      [] c = "E_ACUTE" -> <<"E", COMB_ACUTE>>
      [] c = "a_tilde" -> <<"a", COMB_TILDE>>
      [] c = "A_TILDE" -> <<"A", COMB_TILDE>>
      [] OTHER -> <<c>>

RECURSIVE toLowerCase(_)
toLowerCase(s) ==
    IF s = <<>> THEN <<>> ELSE <<toLowerChar(Head(s))>> \o toLowerCase(Tail(s))

RECURSIVE normalizeNFD(_)
normalizeNFD(s) ==
    IF s = <<>> THEN <<>> ELSE nfdChar(Head(s)) \o normalizeNFD(Tail(s))

KeyChars == LowerLetter \cup Digit \cup {"_"}

\* s.replace(/[^a-z0-9_]/g, "_")
RECURSIVE cleanKey(_)
cleanKey(s) ==
    IF s = <<>> THEN <<>>
    ELSE <<IF Head(s) \in KeyChars THEN Head(s) ELSE "_">> \o cleanKey(Tail(s))

\* the normalisation without toLowerCase
normalizeHeaderCaseful(h) ==
    cleanKey(removeAll(normalizeNFD(h), CombiningMarks))

\* lines 56-61
normalizeHeader(h) ==
    cleanKey(removeAll(normalizeNFD(toLowerCase(h)), CombiningMarks))

\* cells.map(h => normalizeHeader(h))
RECURSIVE normalizeHeaders(_)
normalizeHeaders(cells) ==
    IF cells = <<>> THEN <<>>
    ELSE <<normalizeHeader(Head(cells))>> \o normalizeHeaders(Tail(cells))

----------------------------------------------------------------------------
(* Schema resolution, lines 63-70 *)

Fields == {"data", "produto", "quantidade", "receita", "origem", "custo"}

Candidates ==
    [data |-> {<<"d", "a", "t", "a">>},
     produto |-> {<<"p", "r", "o", "d", "u", "t", "o">>, <<"c", "u", "r", "s", "o">>, <<"i", "t", "e", "m">>},
     quantidade |-> {<<"q", "u", "a", "n", "t", "i", "d", "a", "d", "e">>, <<"v", "e", "n", "d", "a", "s">>, <<"q", "t", "d">>},
     receita |-> {<<"r", "e", "c", "e", "i", "t", "a">>, <<"v", "a", "l", "o", "r">>, <<"t", "o", "t", "a", "l">>, <<"f", "a", "t", "u", "r", "a", "m", "e", "n", "t", "o">>},
     origem |-> {<<"o", "r", "i", "g", "e", "m">>, <<"f", "o", "n", "t", "e">>, <<"u", "t", "m">>, <<"c", "a", "n", "a", "l">>},
     custo |-> {<<"c", "u", "s", "t", "o">>, <<"i", "n", "v", "e", "s", "t", "i", "m", "e", "n", "t", "o">>}]

matches(h, f) == \E sub \in Candidates[f] : includes(h, sub)

\* the scan that keeps the last match instead of the first
RECURSIVE findLastIndexFrom(_, _, _)
findLastIndexFrom(hs, f, k) ==
    IF k >= Len(hs) THEN 0 - 1
    ELSE LET later == findLastIndexFrom(hs, f, k + 1) IN
         IF later >= 0 THEN later
         ELSE IF matches(hs[k + 1], f) THEN k
         ELSE 0 - 1

\* hs.findIndex(h => matches(h, f)): the scan from position k (0-based)
RECURSIVE findIndexFrom(_, _, _)
findIndexFrom(hs, f, k) ==
    IF k >= Len(hs) THEN 0 - 1
    ELSE IF matches(hs[k + 1], f) THEN k
    ELSE findIndexFrom(hs, f, k + 1)

findIndex(hs, f) == findIndexFrom(hs, f, 0)

resolveSchema(hs) == [f \in Fields |-> findIndex(hs, f)]

NoIdx == [f \in Fields |-> 0 - 1]

----------------------------------------------------------------------------
(* Record normalisation, lines 72-95 *)

PRODUTO_INDEFINIDO == <<"P", "r", "o", "d", "u", "t", "o", " ", "I", "n", "d", "e", "f", "i", "n", "i", "d", "o">>
DIRETO == <<"D", "i", "r", "e", "t", "o">>

\* getVal without the range check: an out-of-range read is undefined
getValUnchecked(values, i) ==
    IF i >= 0 /\ i < Len(values) THEN values[i + 1] ELSE undefinedValue

\* getVal written with values.at(i): a negative index counts from the end
getValAt(values, i) ==
    IF i >= 0 /\ i < Len(values) THEN values[i + 1]
    ELSE IF i < 0 /\ 0 - i <= Len(values) THEN values[Len(values) + i + 1]
    ELSE <<>>

\* getVal, line 74
getVal(values, i) == IF i >= 0 /\ i < Len(values) THEN values[i + 1] ELSE <<>>

\* s ?? dflt: only undefined gives the default
orDefaultNullish(s, dflt) == IF s = undefinedValue THEN dflt ELSE s

\* s || dflt for a string s: the empty string and undefined are falsy
orDefault(s, dflt) == IF s = <<>> \/ s = undefinedValue THEN dflt ELSE s

\* line 85 calls .replace on the raw quantity: a TypeError when the raw
\* value is not a string
rowThrows(values, ix) == getVal(values, ix.quantidade) = undefinedValue

\* the record with the quantity of the other variant of the service
\* (line 179): parseInt of the raw cell
makeRecordRawQuantity(values, ix) ==
    [data |-> getVal(values, ix.data),
     produto |-> orDefault(getVal(values, ix.produto), PRODUTO_INDEFINIDO),
     quantidade_vendida |-> orZero(parseInt(getVal(values, ix.quantidade))),
     receita |-> parseNumber(getVal(values, ix.receita)),
     origem |-> orDefault(getVal(values, ix.origem), DIRETO),
     custo_aquisicao |-> parseNumber(getVal(values, ix.custo))]

\* lines 83-94
makeRecord(values, ix) ==
    [data |-> getVal(values, ix.data),
     produto |-> orDefault(getVal(values, ix.produto), PRODUTO_INDEFINIDO),
     quantidade_vendida |->
         orZero(parseInt(keepOnly(getVal(values, ix.quantidade), Digit))),
     receita |-> parseNumber(getVal(values, ix.receita)),
     origem |-> orDefault(getVal(values, ix.origem), DIRETO),
     custo_aquisicao |-> parseNumber(getVal(values, ix.custo))]

\* the filter of the other variant of the service (line 184)
keepRecordNamed(record) ==
    record.produto # PRODUTO_INDEFINIDO \/ Positive(record.receita)

\* the filter with >= for >
keepRecordNonNegative(record) ==
    record.receita.m >= 0 \/ record.quantidade_vendida.m >= 0

\* a filter on the revenue alone
keepRecordRevenueOnly(record) == Positive(record.receita)

\* the filter predicate, line 95
keepRecord(record) == Positive(record.receita) \/ Positive(record.quantidade_vendida)

\* the guard of line 22
isEmptyInput(text) == text = <<>> \/ trim(text) = <<>>

\* the guard of line 26, with the comparison off by one
tooFewLinesOffByOne(ls) == Len(ls) < 1

\* the guard of line 26
tooFewLines(ls) == Len(ls) < 2

\* the detection with >= for >: a tie gives the semicolon
detectSeparatorTie(firstLine) ==
    IF countChar(firstLine, ";") >= countChar(firstLine, ",") THEN ";" ELSE ","

\* lines 29-32
detectSeparator(firstLine) ==
    IF countChar(firstLine, ";") > countChar(firstLine, ",") THEN ";" ELSE ","

\* lines 72-94: the array map builds, one entry for each line after the first
mapRows(ls, dl, ix) ==
    [k \in 1..(Len(ls) - 1) |-> makeRecord(splitLine(ls[k + 1], dl), ix)]

\* TRUE when the map callback throws on some line
mapThrows(ls, dl, ix) ==
    \E k \in 1..(Len(ls) - 1) : rowThrows(splitLine(ls[k + 1], dl), ix)

\* the filter followed by .reverse()
filterRecordsReversed(rs) ==
    LET kept == SelectSeq(rs, keepRecord) IN
    [k \in 1..Len(kept) |-> kept[Len(kept) + 1 - k]]

\* line 95
filterRecords(rs) == SelectSeq(rs, keepRecord)

\* lines 56-70: the column mapping of the header line
schemaOf(firstLine, dl) == resolveSchema(normalizeHeaders(splitLine(firstLine, dl)))

\* parseCSV as a function of its argument, lines 21-96: the value a call
\* returns when it returns
parseCSV(text) ==
    IF isEmptyInput(text) THEN <<>>
    ELSE LET ls == nonBlankLines(text) IN
         IF tooFewLines(ls) THEN <<>>
         ELSE LET dl == detectSeparator(ls[1]) IN
              filterRecords(mapRows(ls, dl, schemaOf(ls[1], dl)))

\* TRUE when the call parseCSV(text) ends in an exception
parseCSVThrows(text) ==
    /\ ~isEmptyInput(text)
    /\ LET ls == nonBlankLines(text) IN
       /\ ~tooFewLines(ls)
       /\ LET dl == detectSeparator(ls[1]) IN mapThrows(ls, dl, schemaOf(ls[1], dl))

----------------------------------------------------------------------------
(* Inputs *)

MaxRows == 2
MaxLineLen == 5
MaxFieldLen == 3
MaxNumLen == 4

Strings(alphabet, n) == UNION {[1..k -> alphabet] : k \in 0..n}

\* the lines the input texts are made of: blank lines, headers with one
\* separator, with the other, with as many of both and with no known
\* column, and data rows
\* the empty line
BlankLine == <<>>
\* a line of one space
SpaceLine == <<" ">>
\* Data;Produto;Qtd;Valor
HeaderSemi == <<"D", "a", "t", "a", ";", "P", "r", "o", "d", "u", "t", "o", ";", "Q", "t", "d", ";", "V", "a", "l", "o", "r">>
\* Item,Valor,Qtd,Total
HeaderComma == <<"I", "t", "e", "m", ",", "V", "a", "l", "o", "r", ",", "Q", "t", "d", ",", "T", "o", "t", "a", "l">>
\* Curso;Total,Custo;Valor,Data
HeaderTie == <<"C", "u", "r", "s", "o", ";", "T", "o", "t", "a", "l", ",", "C", "u", "s", "t", "o", ";", "V", "a", "l", "o", "r", ",", "D", "a", "t", "a">>
\* Nome,Preco
HeaderNone == <<"N", "o", "m", "e", ",", "P", "r", "e", "c", "o">>
\* 2024-01-05;Curso A;3;150,00
RowSold == <<"2", "0", "2", "4", "-", "0", "1", "-", "0", "5", ";", "C", "u", "r", "s", "o", " ", "A", ";", "3", ";", "1", "5", "0", ",", "0", "0">>
\* A,"10,5",0
RowQuoted == <<"A", ",", "\"", "1", "0", ",", "5", "\"", ",", "0">>
\* B,-5,0
RowRefund == <<"B", ",", "-", "5", ",", "0">>
\* B,-5,2
RowRefundSold == <<"B", ",", "-", "5", ",", "2">>
\* D,n/a,4
RowNoPrice == <<"D", ",", "n", "/", "a", ",", "4">>
\* E,"7,1
RowOpenQuote == <<"E", ",", "\"", "7", ",", "1">>

\* what precedes the header, the header (or none), and the lines after it
Preambles == {<<>>, <<BlankLine>>, <<SpaceLine>>}
HeaderLines == {HeaderSemi, HeaderComma, HeaderTie, HeaderNone}
RowLines == {RowSold, RowQuoted, RowRefund, RowRefundSold, RowNoPrice, RowOpenQuote,
             BlankLine, SpaceLine}

\* the two shapes of file: plain with LF, and BOM-prefixed with CR LF
FileShapes == {[bom |-> <<>>, eol |-> <<LF>>], [bom |-> <<BOM>>, eol |-> <<CR, LF>>]}

RECURSIVE joinLines(_, _)
joinLines(ls, eol) ==
    IF ls = <<>> THEN <<>>
    ELSE IF Len(ls) = 1 THEN ls[1]
    ELSE ls[1] \o eol \o joinLines(Tail(ls), eol)

CsvInputs ==
    {shape.bom \o joinLines(pre \o hd \o rows, shape.eol) :
        shape \in FileShapes, pre \in Preambles,
        hd \in {<<>>} \cup {<<h>> : h \in HeaderLines},
        rows \in Strings(RowLines, MaxRows)}

----------------------------------------------------------------------------
(* parseCSV, lines 21-96 *)

csvIdle ==
    /\ csv = <<>> /\ lines = <<>> /\ headers = <<>> /\ idx = NoIdx
    /\ records = <<>> /\ result = <<>> /\ raised = FALSE
splitIdle == line = <<>> /\ loop = splitInit /\ met = 0 /\ fields = <<>>
numIdle == val = <<>> /\ num = Zero

\* no fetch made: kind is "none", "failed" (fetch rejected) or "received";
\* body is "unread", "failed" (response.text() rejected) or "text"
NoResponse == [kind |-> "none", ok |-> FALSE, body |-> "unread"]
fetchIdle == response = NoResponse

\* the other parseCSV has not run
NoVariant == [records |-> <<>>, result |-> <<>>]
variantIdle == variant = NoVariant

\* null, for fileName
Null == <<"null">>
\* the value 'All' of the two filters
All == <<"A", "l", "l">>

\* App.tsx lines 34-47: the initial values of the useState calls
AppInitial ==
    [data |-> <<>>, loading |-> TRUE, refreshKey |-> 0, isManualUpload |-> FALSE,
     fileName |-> Null, productFilter |-> All, monthFilter |-> All,
     compareA |-> <<>>, compareB |-> <<>>]

\* nothing in flight: fetches counts the fetchSalesData promises not yet
\* settled, reads holds the files handed to readAsText and not yet loaded,
\* started counts the file reads started so far
NoPending == [fetches |-> 0, reads |-> <<>>, started |-> 0]

appIdle == app = AppInitial /\ pending = NoPending /\ shown = <<>>

Init ==
    /\ csv \in CsvInputs
    /\ pc = "start"
    /\ lines = <<>>
    /\ separator = ","
    /\ headers = <<>>
    /\ idx = NoIdx
    /\ records = <<>>
    /\ result = <<>>
    /\ raised = FALSE
    /\ splitIdle
    /\ numIdle
    /\ fetchIdle
    /\ variantIdle
    /\ appIdle

\* lines 22-26
Preprocess ==
    /\ pc = "start"
    /\ IF isEmptyInput(csv)
       THEN /\ pc' = "done"
            /\ result' = <<>>
            /\ UNCHANGED lines
       ELSE /\ lines' = nonBlankLines(csv)
            /\ IF tooFewLines(lines')
               THEN pc' = "done" /\ result' = <<>>
               ELSE pc' = "detect" /\ UNCHANGED result
    /\ UNCHANGED <<csv, separator, headers, idx, records, raised>>
    /\ UNCHANGED <<splitVars, numVars, fetchVars, variantVars, appVars>>

\* the detection with the separator kept in a variable that outlives the
\* call: once ';' has been detected it is not detected again
DetectSeparatorCached ==
    /\ pc = "detect"
    /\ separator' = IF separator = ";" THEN ";" ELSE detectSeparator(lines[1])
    /\ pc' = "header"
    /\ UNCHANGED <<csv, lines, headers, idx, records, result, raised>>
    /\ UNCHANGED <<splitVars, numVars, fetchVars, variantVars, appVars>>

\* lines 29-32
DetectSeparator ==
    /\ pc = "detect"
    /\ separator' = detectSeparator(lines[1])
    /\ pc' = "header"
    /\ UNCHANGED <<csv, lines, headers, idx, records, result, raised>>
    /\ UNCHANGED <<splitVars, numVars, fetchVars, variantVars, appVars>>

\* lines 56-70
ResolveHeaders ==
    /\ pc = "header"
    /\ headers' = normalizeHeaders(splitLine(lines[1], separator))
    /\ idx' = resolveSchema(headers')
    /\ pc' = "map"
    /\ UNCHANGED <<csv, lines, separator, records, result, raised>>
    /\ UNCHANGED <<splitVars, numVars, fetchVars, variantVars, appVars>>

\* the value of inQuotes after line j when the flag is a variable of
\* parseCSV that splitLine does not reset
RECURSIVE carriedQuotes(_, _, _)
carriedQuotes(ls, j, dl) ==
    IF j = 0 THEN FALSE
    ELSE splitRun([splitInit EXCEPT !.inQuotes = carriedQuotes(ls, j - 1, dl)],
                  ls[j], dl).inQuotes

\* the map callback with inQuotes carried over from the line before
MapRowCarried ==
    /\ pc = "map"
    /\ Len(records) < Len(lines) - 1
    /\ LET j == Len(records) + 2
           start == [splitInit EXCEPT !.inQuotes = carriedQuotes(lines, j - 1, separator)]
           values == splitEnd(splitRun(start, lines[j], separator))
       IN  /\ records' = Append(records, makeRecord(values, idx))
           /\ UNCHANGED <<raised, pc>>
    /\ UNCHANGED <<csv, lines, separator, headers, idx, result>>
    /\ UNCHANGED <<splitVars, numVars, fetchVars, variantVars, appVars>>

\* lines 72-94: the map callback on the next line of lines.slice(1)
MapRow ==
    /\ pc = "map"
    /\ Len(records) < Len(lines) - 1
    /\ LET values == splitLine(lines[Len(records) + 2], separator) IN
       IF rowThrows(values, idx)
       THEN raised' = TRUE /\ pc' = "done" /\ UNCHANGED records
       ELSE /\ records' = Append(records, makeRecord(values, idx))
            /\ UNCHANGED <<raised, pc>>
    /\ UNCHANGED <<csv, lines, separator, headers, idx, result>>
    /\ UNCHANGED <<splitVars, numVars, fetchVars, variantVars, appVars>>

\* line 95
FilterRecords ==
    /\ pc = "map"
    /\ Len(records) = Len(lines) - 1
    /\ result' = filterRecords(records)
    /\ pc' = "done"
    /\ UNCHANGED <<csv, lines, separator, headers, idx, records, raised>>
    /\ UNCHANGED <<splitVars, numVars, fetchVars, variantVars, appVars>>

Next == Preprocess \/ DetectSeparator \/ ResolveHeaders \/ MapRow \/ FilterRecords

Spec == Init /\ [][Next]_vars

----------------------------------------------------------------------------
(* splitLine alone, lines 34-54: one action for each loop iteration *)

SplitAlphabet == {"a", " ", DQ, ",", ";"}

\* the CSV-quoted form of a field: wrapped in quotes, each quote doubled
RECURSIVE doubleQuotes(_)
doubleQuotes(s) ==
    IF s = <<>> THEN <<>>
    ELSE (IF Head(s) = DQ THEN <<DQ, DQ>> ELSE <<Head(s)>>) \o doubleQuotes(Tail(s))

csvQuote(s) == <<DQ>> \o doubleQuotes(s) \o <<DQ>>

FieldContents == {s \in Strings(SplitAlphabet, MaxFieldLen) : trim(s) = s}

SplitInputs ==
    Strings(SplitAlphabet, MaxLineLen) \cup {csvQuote(s) : s \in FieldContents}

InitSplit ==
    /\ line \in SplitInputs
    /\ separator \in {",", ";"}
    /\ loop = splitInit
    /\ met = 0
    /\ fields = <<>>
    /\ pc = "loop"
    /\ csvIdle
    /\ numIdle
    /\ fetchIdle
    /\ variantIdle
    /\ appIdle

\* lines 38-51
SplitIterate ==
    /\ pc = "loop"
    /\ loop.i < Len(line)
    /\ loop' = splitBody(loop, line, separator)
    /\ met' = IF charAt(line, loop.i) = separator /\ ~loop.inQuotes
              THEN met + 1 ELSE met
    /\ UNCHANGED <<line, separator, fields, pc>>
    /\ UNCHANGED <<csv, lines, headers, idx, records, result, raised, numVars, fetchVars, variantVars, appVars>>

\* lines 52-53
SplitReturn ==
    /\ pc = "loop"
    /\ loop.i >= Len(line)
    /\ fields' = splitEnd(loop)
    /\ pc' = "return"
    /\ UNCHANGED <<line, separator, loop, met>>
    /\ UNCHANGED <<csv, lines, headers, idx, records, result, raised, numVars, fetchVars, variantVars, appVars>>

NextSplit == SplitIterate \/ SplitReturn

SpecSplit == InitSplit /\ [][NextSplit]_vars

----------------------------------------------------------------------------
(* parseNumber alone, lines 77-81 *)

NumAlphabet == {"0", "1", "5", ".", ",", "-", "$", " "}

\* comma-decimal values in the Brazilian convention, with and without
\* thousands groups, a sign, a currency prefix and a trailing space
FirstGroups == {<<"1">>, <<"5", "0">>}
ThousandGroups == {<<>>, <<".", "2", "3", "4">>, <<".", "0", "0", "0">>}
Decimals == {<<"5">>, <<"5", "6">>, <<"0", "0">>}
CurrencyPrefixes == {<<>>, <<"R", "$", " ">>}
Suffixes == {<<>>, <<" ">>}
Signs == {<<>>, <<"-">>}

CommaInputs ==
    {pre \o sg \o g1 \o th \o <<",">> \o fr \o post :
        pre \in CurrencyPrefixes, sg \in Signs, g1 \in FirstGroups,
        th \in ThousandGroups, fr \in Decimals, post \in Suffixes}

\* the same values written in the plain convention: decimal point, no groups
PlainInputs ==
    {sg \o g1 \o removeAll(th, {"."}) \o <<".">> \o fr :
        sg \in Signs, g1 \in FirstGroups, th \in ThousandGroups, fr \in Decimals}

NumInputs == Strings(NumAlphabet, MaxNumLen) \cup CommaInputs \cup PlainInputs

InitNum ==
    /\ val \in NumInputs
    /\ num = Zero
    /\ pc = "call"
    /\ separator = ","
    /\ csvIdle
    /\ splitIdle
    /\ fetchIdle
    /\ variantIdle
    /\ appIdle

ParseNumber ==
    /\ pc = "call"
    /\ num' = parseNumber(val)
    /\ pc' = "return"
    /\ UNCHANGED <<val, separator>>
    /\ UNCHANGED <<csv, lines, headers, idx, records, result, raised>>
    /\ UNCHANGED <<splitVars, fetchVars, variantVars, appVars>>

NextNum == ParseNumber

SpecNum == InitNum /\ [][NextNum]_vars

----------------------------------------------------------------------------
(* Properties of parseCSV (specification Spec) *)

Returned == pc = "done" /\ ~raised

\* the data rows of the call, once the lines are known
RowCount == IF Len(lines) >= 2 THEN Len(lines) - 1 ELSE 0

\* the number of pieces of the text, BOM removed and split at the line
\* terminators, that hold a character other than white space
NonBlankCount ==
    LET pieces == splitNewlines(stripBOM(csv)) IN
    Cardinality({k \in 1..Len(pieces) :
                    \E j \in 1..Len(pieces[k]) : pieces[k][j] \notin WhiteSpace})

\* C1: every record of the returned sequence has revenue > 0 or
\* quantitySold > 0.
C1_OutputHasSignal ==
    Returned =>
        \A k \in 1..Len(result) :
            result[k].receita.m > 0 \/ result[k].quantidade_vendida.m > 0

\* a call that kept one record and dropped another
C1_Witness ==
    /\ Returned
    /\ Len(result) >= 1
    /\ Len(result) < Len(records)

\* C2 as stated: a row's record is omitted exactly when its revenue is 0 and
\* its quantity is 0, whatever the sign of the revenue.
C2_DropsOnlyZeroZero ==
    Returned /\ RowCount > 0 =>
        result = SelectSeq(records,
                     LAMBDA r : ~(r.receita = Zero /\ r.quantidade_vendida = Zero))

\* C2 amended: a row's record is omitted exactly when its revenue is 0 or
\* negative and its quantity is 0; every other record is retained.
C2_DropsNoRevenueNoQuantity ==
    Returned /\ RowCount > 0 =>
        result = SelectSeq(records,
                     LAMBDA r : ~(r.receita.m <= 0 /\ r.quantidade_vendida = Zero))

\* a call that dropped a row of negative revenue and kept a row of negative
\* revenue that has a quantity
C2_Witness ==
    /\ Returned
    /\ \E k \in 1..Len(records) :
          records[k].receita.m < 0 /\ records[k].quantidade_vendida = Zero
    /\ \E k \in 1..Len(result) : result[k].receita.m < 0

\* C3: a text with fewer than 2 non-blank lines makes parseCSV return the
\* empty sequence, and it does so at the guards: no separator is detected
\* and no header is resolved for it.
C3_FewLinesReturnEmpty ==
    NonBlankCount < 2 =>
        /\ pc \in {"start", "done"}
        /\ pc = "done" => result = <<>> /\ ~raised /\ records = <<>>

\* a returned call on a text whose single non-blank line comes after a blank
\* one
C3_Witness ==
    /\ Returned
    /\ NonBlankCount = 1
    /\ Len(splitNewlines(stripBOM(csv))) >= 2
    /\ result = <<>>

Positions(s, c) == {j \in 1..Len(s) : s[j] = c}

\* the number a string of digits denotes
RECURSIVE NatOf(_)
NatOf(s) ==
    IF s = <<>> THEN 0
    ELSE 10 * NatOf(SubSeq(s, 1, Len(s) - 1)) + DigitVal(s[Len(s)])

IsRecord(r) ==
    /\ DOMAIN r = {"data", "produto", "quantidade_vendida", "receita", "origem",
                   "custo_aquisicao"}
    /\ \A f \in {"quantidade_vendida", "receita", "custo_aquisicao"} : r[f].e >= 0

HasDigit(s) == \E j \in 1..Len(s) : s[j] \in Digit

\* the raw cell of a semantic field in the values of a row
RawCell(values, f) ==
    IF idx[f] >= 0 /\ idx[f] < Len(values) THEN values[idx[f] + 1] ELSE <<>>

\* C4: parseCSV never raises and returns a sequence of records; a numeric
\* field whose raw cell holds no number becomes 0, and the other numeric
\* fields of that row keep the values of their own cells.
C4_NeverRaises ==
    /\ ~raised
    /\ pc = "done" => \A k \in 1..Len(result) : IsRecord(result[k])
    /\ \A k \in 1..Len(records) :
          LET values == splitLine(lines[k + 1], separator)
              quantity == RawCell(values, "quantidade")
          IN  /\ IsRecord(records[k])
              /\ ~HasDigit(RawCell(values, "receita")) => records[k].receita = Zero
              /\ ~HasDigit(RawCell(values, "custo")) =>
                     records[k].custo_aquisicao = Zero
              /\ ~HasDigit(quantity) => records[k].quantidade_vendida = Zero
              /\ HasDigit(quantity) =>
                     records[k].quantidade_vendida =
                         [m |-> NatOf(SelectSeq(quantity, LAMBDA c : c \in Digit)),
                          e |-> 0]

\* a returned call with a row shorter than the header, a row with an
\* unbalanced quote, and a row whose revenue cell is not a number while its
\* quantity cell is one
C4_Witness ==
    /\ Returned
    /\ \E k \in 2..Len(lines) : Cardinality(Positions(lines[k], DQ)) = 1
    /\ \E k \in 1..Len(records) :
          Len(splitLine(lines[k + 1], separator)) < Len(headers)
    /\ \E k \in 1..Len(records) :
          LET values == splitLine(lines[k + 1], separator) IN
          /\ RawCell(values, "receita") # <<>>
          /\ ~HasDigit(RawCell(values, "receita"))
          /\ records[k].receita = Zero
          /\ records[k].quantidade_vendida.m > 0

\* the non-blank pieces of the text, in order: the header, then the rows
NonBlankPieces ==
    SelectSeq(splitNewlines(stripBOM(csv)),
              LAMBDA l : \E j \in 1..Len(l) : l[j] \notin WhiteSpace)

\* C8: the separator is ';' exactly when the first non-blank line has more
\* ';' than ',' (a tie or neither gives ','); from its detection on it stays
\* that one, and the header and every data row are split with it, whatever
\* the later rows contain.
C8_DelimiterDetection ==
    pc \in {"header", "map", "done"} /\ Len(lines) >= 2 =>
        LET pieces == NonBlankPieces
            first == pieces[1]
            d == IF Cardinality(Positions(first, ";")) >
                        Cardinality(Positions(first, ","))
                 THEN ";" ELSE ","
        IN  /\ separator = d
            /\ pc # "header" => headers = normalizeHeaders(splitLine(first, d))
            /\ \A k \in 1..Len(records) :
                   records[k] = makeRecord(splitLine(pieces[k + 1], d), idx)

\* a returned call whose header chose ';' and where a row holding only
\* commas stayed one field
C8_Witness ==
    /\ Returned
    /\ Len(lines) >= 2
    /\ separator = ";"
    /\ \E k \in 2..Len(lines) :
          /\ Cardinality(Positions(lines[k], ",")) > 0
          /\ Cardinality(Positions(lines[k], ";")) = 0
          /\ Len(splitLine(lines[k], separator)) = 1

\* the columns whose normalised header contains a candidate of field f
MatchingColumns(f) ==
    {k \in 0..(Len(headers) - 1) :
        \E sub \in Candidates[f] :
            \E j \in 1..(Len(headers[k + 1]) - Len(sub) + 1) :
                \A n \in 1..Len(sub) : headers[k + 1][j + n - 1] = sub[n]}

\* C10: the index of each semantic field is the smallest column whose
\* normalised header contains one of its candidates, -1 when there is none;
\* the fields are resolved independently of each other.
C10_FirstMatchingColumn ==
    pc \in {"map", "done"} /\ Len(lines) >= 2 =>
        \A f \in Fields :
            IF MatchingColumns(f) = {} THEN idx[f] = 0 - 1
            ELSE /\ idx[f] \in MatchingColumns(f)
                 /\ \A k \in MatchingColumns(f) : idx[f] <= k

\* a resolved header with one column serving two fields, a field with two
\* matching columns and an absent field
C10_Witness ==
    /\ pc \in {"map", "done"}
    /\ Len(lines) >= 2
    /\ \E f, g \in Fields : f # g /\ idx[f] >= 0 /\ idx[f] = idx[g]
    /\ \E f \in Fields : Cardinality(MatchingColumns(f)) >= 2
    /\ \E f \in Fields : idx[f] = 0 - 1

----------------------------------------------------------------------------
(* Properties of parseNumber (specification SpecNum) *)

\* what may surround the number: currency symbols and spaces
CurrencyChars == {"R", "$", " "}

RECURSIVE unwrapStart(_)
unwrapStart(s) ==
    IF s # <<>> /\ Head(s) \in CurrencyChars THEN unwrapStart(Tail(s)) ELSE s

RECURSIVE unwrapEnd(_)
unwrapEnd(s) ==
    IF s # <<>> /\ s[Len(s)] \in CurrencyChars
    THEN unwrapEnd(SubSeq(s, 1, Len(s) - 1))
    ELSE s

Unwrapped(s) == unwrapEnd(unwrapStart(s))

IsNegative(s) == s # <<>> /\ Head(s) = "-"
Unsigned(s) == IF IsNegative(s) THEN Tail(s) ELSE s

AllDigits(s) == s # <<>> /\ \A j \in 1..Len(s) : s[j] \in Digit

\* ".ddd" groups up to the end
RECURSIVE GroupsOnly(_)
GroupsOnly(s) ==
    \/ s = <<>>
    \/ /\ Len(s) >= 4
       /\ s[1] = "."
       /\ AllDigits(SubSeq(s, 2, 4))
       /\ GroupsOnly(SubSeq(s, 5, Len(s)))

\* an integer part: digits alone, or 1 to 3 digits and groups of 3
IsIntegerPart(s) ==
    \/ AllDigits(s)
    \/ \E n \in 1..3 :
          /\ n < Len(s)
          /\ AllDigits(SubSeq(s, 1, n))
          /\ GroupsOnly(SubSeq(s, n + 1, Len(s)))

RECURSIVE NoTrailingZeros(_)
NoTrailingZeros(s) ==
    IF s # <<>> /\ s[Len(s)] = "0" THEN NoTrailingZeros(SubSeq(s, 1, Len(s) - 1))
    ELSE s

\* the number with the given sign, integer digits and decimal digits
NumberOf(neg, int, dec) ==
    LET d == NoTrailingZeros(dec)
        n == NatOf(int \o d)
    IN  [m |-> IF neg THEN 0 - n ELSE n, e |-> Len(d)]

\* v is a comma-decimal value: optional wrapping, optional sign, an integer
\* part with optional thousands dots, one comma, decimal digits
IsCommaDecimal(v) ==
    LET u == Unsigned(Unwrapped(v)) IN
    /\ Cardinality(Positions(u, ",")) = 1
    /\ LET p == CHOOSE j \in Positions(u, ",") : TRUE IN
       /\ IsIntegerPart(SubSeq(u, 1, p - 1))
       /\ AllDigits(SubSeq(u, p + 1, Len(u)))

CommaDecimalValue(v) ==
    LET u == Unsigned(Unwrapped(v))
        p == CHOOSE j \in Positions(u, ",") : TRUE
    IN  NumberOf(IsNegative(Unwrapped(v)),
                 SelectSeq(SubSeq(u, 1, p - 1), LAMBDA c : c \in Digit),
                 SubSeq(u, p + 1, Len(u)))

\* v is a plain-decimal value: optional sign, digits, one point, digits
IsPlainDecimal(v) ==
    LET u == Unsigned(Unwrapped(v)) IN
    /\ Cardinality(Positions(u, ".")) = 1
    /\ LET p == CHOOSE j \in Positions(u, ".") : TRUE IN
       /\ AllDigits(SubSeq(u, 1, p - 1))
       /\ AllDigits(SubSeq(u, p + 1, Len(u)))

PlainDecimalValue(v) ==
    LET u == Unsigned(Unwrapped(v))
        p == CHOOSE j \in Positions(u, ".") : TRUE
    IN  NumberOf(IsNegative(Unwrapped(v)), SubSeq(u, 1, p - 1),
                 SubSeq(u, p + 1, Len(u)))

\* 1.234,56
Example1234Comma == <<"1", ".", "2", "3", "4", ",", "5", "6">>
\* R$ 50,00
Example50Reais == <<"R", "$", " ", "5", "0", ",", "0", "0">>
\* 1234.56
Example1234Plain == <<"1", "2", "3", "4", ".", "5", "6">>

\* C5: a comma-decimal value parses to the number it denotes: "1.234,56" to
\* 1234.56, "R$ 50,00" to 50, the empty string to 0, and in general a value
\* with thousands dots and one decimal comma, wrapped or not in currency
\* symbols and spaces.
C5_CommaDecimalParses ==
    pc = "return" =>
        /\ val = Example1234Comma => num = [m |-> 123456, e |-> 2]
        /\ val = Example50Reais => num = [m |-> 50, e |-> 0]
        /\ val = <<>> => num = Zero
        /\ IsCommaDecimal(val) => num = CommaDecimalValue(val)

\* "1.234,56" has been parsed to 1234.56
C5_Witness ==
    /\ pc = "return"
    /\ val = Example1234Comma
    /\ IsCommaDecimal(val)
    /\ num = [m |-> 123456, e |-> 2]

\* C6: a plain-decimal value (decimal point, no comma) parses to the number
\* it denotes, so "1234.56" parses to 1234.56.
C6_PlainDecimalParses ==
    pc = "return" =>
        /\ val = Example1234Plain => num = [m |-> 123456, e |-> 2]
        /\ IsPlainDecimal(val) => num = PlainDecimalValue(val)

----------------------------------------------------------------------------
(* Properties of splitLine (specification SpecSplit) *)

\* C7: tokenizing the CSV-quoted form of a field content s, which has no
\* leading or trailing white space, yields the single field s.
C7_QuoteRoundTrip ==
    pc = "return" =>
        \A s \in FieldContents : line = csvQuote(s) => fields = <<s>>

\* the line ends in a separator that was met while inQuotes was false
EndsInUnquotedSeparator ==
    line # <<>> /\ line[Len(line)] = separator /\ ~loop.inQuotes

C9_Counts ==
    pc = "return" =>
        /\ Len(fields) = met + 1
        /\ Len(fields) >= 1
        /\ EndsInUnquotedSeparator => fields[Len(fields)] = <<>>

\* an iteration that examines a separator while inQuotes is true pushes no
\* field and appends the separator to the current field
C9_QuotedSeparatorStays ==
    pc = "loop" /\ loop.i < Len(line) /\ loop.inQuotes
    /\ line[loop.i + 1] = separator =>
        /\ loop'.result = loop.result
        /\ loop'.current = Append(loop.current, separator)
        /\ loop'.inQuotes

\* C9: splitLine returns k+1 fields, k being the number of separators met
\* while inQuotes was false; a separator met while inQuotes is true stays in
\* its field; every line gives at least one field and a line ending in an
\* unquoted separator gives a final empty field.
C9_FieldCount == [](C9_Counts) /\ [][C9_QuotedSeparatorStays]_vars

\* a returned call on a line with a quoted separator, an unquoted one before
\* it and an unquoted one at its end
C9_Witness ==
    /\ pc = "return"
    /\ met = 2
    /\ Len(fields) = 3
    /\ Cardinality(Positions(line, separator)) = 3
    /\ EndsInUnquotedSeparator
    /\ \E k \in 1..Len(fields) : \E j \in 1..Len(fields[k]) : fields[k][j] = separator

----------------------------------------------------------------------------
(* Schema resolution on headers written in several styles (specification   *)
(* SpecSchema): parseCSV on a header line and one data line                *)

MaxCols == 2

HeaderWords == {<<"d", "a", "t", "a">>, <<"r", "e", "c", "e", "i", "t", "a">>, <<"n", "o", "m", "e">>}

RECURSIVE toUpperCase(_)
toUpperCase(s) ==
    IF s = <<>> THEN <<>>
    ELSE LET c == Head(s) IN
         <<IF \E k \in 1..26 : LowerLetters[k] = c
           THEN UpperLetters[CHOOSE k \in 1..26 : LowerLetters[k] = c]
           ELSE IF c = "e_acute" THEN "E_ACUTE"
           ELSE IF c = "a_tilde" THEN "A_TILDE"
           ELSE c>> \o toUpperCase(Tail(s))

\* every e written with an acute accent, every a with a tilde
RECURSIVE accented(_)
accented(s) ==
    IF s = <<>> THEN <<>>
    ELSE <<CASE Head(s) = "e" -> "e_acute"
             [] Head(s) = "a" -> "a_tilde"
             [] OTHER -> Head(s)>> \o accented(Tail(s))

capitalised(s) == IF s = <<>> THEN <<>> ELSE toUpperCase(<<Head(s)>>) \o Tail(s)

UnitSuffix == <<" ", "(", "R", "$", ")">>

HeaderStyles == {"lower", "upperAccented", "accented", "unit"}

styled(w, st) ==
    CASE st = "lower" -> w
      [] st = "accented" -> capitalised(accented(w))
      [] st = "upperAccented" -> toUpperCase(accented(w))
      [] st = "unit" -> capitalised(w) \o UnitSuffix

HeaderCells == {styled(w, st) : w \in HeaderWords, st \in HeaderStyles}

HeaderRows == UNION {[1..n -> HeaderCells] : n \in 1..MaxCols}

\* the cells joined by the delimiter dl
RECURSIVE joinCells(_, _)
joinCells(cells, dl) ==
    IF cells = <<>> THEN <<>>
    ELSE IF Len(cells) = 1 THEN cells[1]
    ELSE cells[1] \o <<dl>> \o joinCells(Tail(cells), dl)

\* a data line with the digit 5 in every column
fivesRow(n, dl) == joinCells([k \in 1..n |-> <<"5">>], dl)

SchemaInputs ==
    {joinCells(row, dl) \o <<LF>> \o fivesRow(Len(row), dl) :
        row \in HeaderRows, dl \in {",", ";"}}

InitSchema ==
    /\ csv \in SchemaInputs
    /\ pc = "start"
    /\ lines = <<>>
    /\ separator = ","
    /\ headers = <<>>
    /\ idx = NoIdx
    /\ records = <<>>
    /\ result = <<>>
    /\ raised = FALSE
    /\ splitIdle
    /\ numIdle
    /\ fetchIdle
    /\ variantIdle
    /\ appIdle

SpecSchema == InitSchema /\ [][Next]_vars

\* the letter a character stands for when case and accent are set aside
foldChar(c) ==
    CASE c \in {"e_acute", "E_ACUTE"} -> "e"
      [] c \in {"a_tilde", "A_TILDE"} -> "a"
      [] \E k \in 1..26 : UpperLetters[k] = c ->
             LowerLetters[CHOOSE k \in 1..26 : UpperLetters[k] = c]
      [] OTHER -> c

\* s in lower case without accents: two strings differ only in the case of
\* letters or in accents on letters exactly when their folds are equal
RECURSIVE fold(_)
fold(s) == IF s = <<>> THEN <<>> ELSE <<foldChar(Head(s))>> \o fold(Tail(s))

SchemaResolved == pc \in {"map", "done"} /\ ~raised

\* the cells of the header line as written
HeaderCellsWritten == splitLine(lines[1], separator)

\* C11: the column mapping of a header line is the mapping of the same line
\* written in lower case without accents, so header lines that differ only
\* in case or accents resolve alike; and a cell whose letters contain a
\* candidate of a field gives that field a column at or before it, whatever
\* other characters the cell has ("Receita (R$)" resolves as receita)
C11_CaseAccentInsensitive ==
    SchemaResolved =>
        /\ idx = schemaOf(fold(lines[1]), separator)
        /\ \A f \in Fields : \A k \in 1..Len(HeaderCellsWritten) :
               (\E sub \in Candidates[f] : includes(fold(HeaderCellsWritten[k]), sub))
                   => idx[f] \in 0..(k - 1)

C11_Witness ==
    /\ Returned
    /\ lines[1] = <<"D", "A_TILDE", "T", "A_TILDE", ";">> \o <<"R", "e", "c", "e", "i", "t", "a", " ", "(", "R", "$", ")">>
    /\ idx.data = 0 /\ idx.receita = 1 /\ idx.origem = 0 - 1
    /\ Len(result) = 1 /\ result[1].receita = [m |-> 5, e |-> 0]

----------------------------------------------------------------------------
(* parseCSV on sales sheets with the five columns of the documented        *)
(* example (specification SpecSales)                                       *)

MaxSaleRows == 3

SalesHeader == <<"D", "a", "t", "a", ";", "P", "r", "o", "d", "u", "t", "o", ";", "Q", "u", "a", "n", "t", "i", "d", "a", "d", "e", ";", "R", "e", "c", "e", "i", "t", "a", ";", "O", "r", "i", "g", "e", "m">>
\* 2024-01-05;Curso A;3;150,00;Instagram
SaleExample == <<"2", "0", "2", "4", "-", "0", "1", "-", "0", "5", ";", "C", "u", "r", "s", "o", " ", "A", ";", "3", ";", "1", "5", "0", ",", "0", "0", ";", "I", "n", "s", "t", "a", "g", "r", "a", "m">>
\* 2024-01-06;;0;0;Facebook
SaleEmpty == <<"2", "0", "2", "4", "-", "0", "1", "-", "0", "6", ";", ";", "0", ";", "0", ";", "F", "a", "c", "e", "b", "o", "o", "k">>
\* padded cells, a quantity with a unit, no revenue, a blank source
SalePadded == <<"2", "0", "2", "4", "-", "0", "1", "-", "0", "7", ";", " ", "C", "u", "r", "s", "o", " ", "B", " ", ";", "1", ".", "5", " ", "u", "n", ";", ";", " ", " ">>
\* a row that ends after the quantity
SaleShort == <<"2", "0", "2", "4", "-", "0", "1", "-", "0", "8", ";", "C", "u", "r", "s", "o", " ", "C", ";", "2">>
\* quoted cells holding the separator and padding, a signed quantity
SaleQuoted == <<"2", "0", "2", "4", "-", "0", "1", "-", "0", "9", ";", "\"", " ", "C", "u", "r", "s", "o", ";", " ", "D", " ", "\"", ";", "-", "4", ";", "\"", " ", "1", ".", "2", "0", "0", ",", "5", "0", " ", "\"", ";", "\"", "G", "o", "o", "g", "l", "e", " ", "A", "d", "s", "\"">>
\* a quantity with no digit and a negative revenue
SaleRefund == <<"2", "0", "2", "4", "-", "0", "1", "-", "1", "0", ";", "C", "u", "r", "s", "o", " ", "E", ";", "n", "/", "a", ";", "-", "2", "0", ";", "T", "i", "k", "T", "o", "k">>

SaleRows == {SaleExample, SaleEmpty, SalePadded, SaleShort, SaleQuoted, SaleRefund}

SalesInputs ==
    {joinLines(<<SalesHeader>> \o rows, <<LF>>) : rows \in Strings(SaleRows, MaxSaleRows)}

InitSales ==
    /\ csv \in SalesInputs
    /\ pc = "start"
    /\ lines = <<>>
    /\ separator = ","
    /\ headers = <<>>
    /\ idx = NoIdx
    /\ records = <<>>
    /\ result = <<>>
    /\ raised = FALSE
    /\ splitIdle
    /\ numIdle
    /\ fetchIdle
    /\ variantIdle
    /\ appIdle

SpecSales == InitSales /\ [][Next]_vars

(* Properties of the record normaliser (specification SpecSales) *)

\* the record field that holds a semantic field
RecordField(f) ==
    CASE f = "quantidade" -> "quantidade_vendida"
      [] f = "custo" -> "custo_aquisicao"
      [] OTHER -> f

\* the value of a semantic field whose raw value is the empty string
DefaultOf(f) ==
    CASE f = "data" -> <<>>
      [] f = "produto" -> PRODUTO_INDEFINIDO
      [] f = "origem" -> DIRETO
      [] OTHER -> Zero

\* the value of a semantic field read from the cell it is mapped to
ParsedOf(f, cell) ==
    CASE f = "data" -> cell
      [] f = "produto" -> IF cell = <<>> THEN PRODUTO_INDEFINIDO ELSE cell
      [] f = "origem" -> IF cell = <<>> THEN DIRETO ELSE cell
      [] f = "quantidade" ->
             [m |-> NatOf(SelectSeq(cell, LAMBDA c : c \in Digit)), e |-> 0]
      [] OTHER -> parseNumber(cell)

\* C12: in every data row, a semantic field whose index is absent or not
\* less than the row's field count takes its default ("Produto Indefinido",
\* "Direto", the empty date, 0 for quantity, revenue and cost) and nothing is
\* raised, while a field whose index is in range has the value read from its
\* own cell.
C12_MissingFieldsDefault ==
    /\ ~raised
    /\ \A k \in 1..Len(records) :
          LET values == splitLine(lines[k + 1], separator) IN
          \A f \in Fields :
              records[k][RecordField(f)] =
                  IF idx[f] < 0 \/ idx[f] >= Len(values)
                  THEN DefaultOf(f)
                  ELSE ParsedOf(f, values[idx[f] + 1])

\* a returned call with no cost column and a row of three cells: its source
\* and revenue are defaults, its product and quantity come from its cells
C12_Witness ==
    /\ Returned
    /\ idx.custo = 0 - 1 /\ idx.receita = 3 /\ idx.origem = 4
    /\ \E k \in 1..Len(records) :
          /\ Len(splitLine(lines[k + 1], separator)) = 3
          /\ records[k].origem = DIRETO
          /\ records[k].receita = Zero
          /\ records[k].custo_aquisicao = Zero
          /\ records[k].produto = <<"C", "u", "r", "s", "o", " ", "C">>
          /\ records[k].quantidade_vendida = [m |-> 2, e |-> 0]
          /\ \E j \in 1..Len(result) : result[j] = records[k]

\* the pieces of ln between the occurrences of dl
RECURSIVE cutAt(_, _)
cutAt(ln, dl) ==
    LET ps == Positions(ln, dl) IN
    IF ps = {} THEN <<ln>>
    ELSE LET i == CHOOSE j \in ps : \A m \in ps : j <= m IN
         <<SubSeq(ln, 1, i - 1)>> \o cutAt(SubSeq(ln, i + 1, Len(ln)), dl)

\* s without the white space at its two ends
Stripped(s) ==
    LET inner == {j \in 1..Len(s) : s[j] \notin WhiteSpace} IN
    IF inner = {} THEN <<>>
    ELSE SubSeq(s, CHOOSE j \in inner : \A m \in inner : j <= m,
                   CHOOSE j \in inner : \A m \in inner : j >= m)

NameFields == {"produto", "origem"}

\* C13: in every returned record, product and source are non-empty and have
\* no white space at either end; in every row, each is the trimmed raw field
\* when that is non-empty and its sentinel otherwise (for a row without
\* quotes the raw field is the text between two separators).
C13_NamesTrimmedNonEmpty ==
    /\ Returned =>
          \A k \in 1..Len(result) : \A g \in NameFields :
              LET name == result[k][g] IN
              /\ name # <<>>
              /\ name[1] \notin WhiteSpace
              /\ name[Len(name)] \notin WhiteSpace
    /\ \A k \in 1..Len(records) : \A g \in NameFields :
          LET ln == lines[k + 1]
              raw == IF Positions(ln, DQ) = {}
                     THEN (IF idx[g] >= 0 /\ idx[g] < Len(cutAt(ln, separator))
                           THEN cutAt(ln, separator)[idx[g] + 1] ELSE <<>>)
                     ELSE RawCell(splitLine(ln, separator), g)
          IN records[k][g] = IF Stripped(raw) # <<>> THEN Stripped(raw)
                             ELSE DefaultOf(g)

\* a returned record whose product was written with spaces around it and
\* whose source was written as spaces only
C13_Witness ==
    /\ Returned
    /\ \E k \in 1..Len(lines) - 1 :
          /\ lines[k + 1] = SalePadded
          /\ records[k].produto = <<"C", "u", "r", "s", "o", " ", "B">>
          /\ records[k].origem = DIRETO
          /\ \E j \in 1..Len(result) : result[j] = records[k]

\* C14: the quantity of every record is a non-negative integer, the number
\* written by the digits of the raw quantity field in order, every other
\* character removed, and 0 when the field has no digit.
C14_QuantityFromDigits ==
    \A k \in 1..Len(records) :
        LET raw == RawCell(splitLine(lines[k + 1], separator), "quantidade")
            digits == SelectSeq(raw, LAMBDA c : c \in Digit)
            quantity == records[k].quantidade_vendida
        IN  /\ quantity.e = 0
            /\ quantity.m >= 0
            /\ quantity.m = IF digits = <<>> THEN 0 ELSE NatOf(digits)

\* a call whose rows wrote the quantities "1.5 un", "-4" and "n/a"
C14_Witness ==
    /\ Returned
    /\ Len(records) = 3
    /\ lines[2] = SalePadded /\ records[1].quantidade_vendida = [m |-> 15, e |-> 0]
    /\ lines[3] = SaleQuoted /\ records[2].quantidade_vendida = [m |-> 4, e |-> 0]
    /\ lines[4] = SaleRefund /\ records[3].quantidade_vendida = Zero

\* the entries of rs at the positions in S, in the order of rs
pick(rs, S) ==
    LET upTo[k \in 0..Len(rs)] ==
            IF k = 0 THEN <<>>
            ELSE IF k \in S THEN Append(upTo[k - 1], rs[k]) ELSE upTo[k - 1]
    IN upTo[Len(rs)]

\* C15: the returned records are the records of a subsequence of the data
\* rows (the non-blank lines after the header) in the order of the rows, one
\* record at most for each row.
C15_OrderPreserved ==
    Returned /\ RowCount > 0 =>
        LET rows == Tail(NonBlankPieces)
            made == [k \in 1..Len(rows) |->
                        makeRecord(splitLine(rows[k], separator), idx)]
        IN \E S \in SUBSET (1..Len(rows)) : result = pick(made, S)

\* a call that dropped the second of three rows and returned the first and
\* the third, which differ, in that order
C15_Witness ==
    /\ Returned
    /\ Len(records) = 3 /\ Len(result) = 2
    /\ records[1] # records[3]
    /\ result = <<records[1], records[3]>>

\* the three lines of the documented example
ExampleCsv == joinLines(<<SalesHeader, SaleExample, SaleEmpty>>, <<LF>>)

ExampleRecord ==
    [data |-> <<"2", "0", "2", "4", "-", "0", "1", "-", "0", "5">>,
     produto |-> <<"C", "u", "r", "s", "o", " ", "A">>,
     quantidade_vendida |-> [m |-> 3, e |-> 0],
     receita |-> [m |-> 150, e |-> 0],
     origem |-> <<"I", "n", "s", "t", "a", "g", "r", "a", "m">>,
     custo_aquisicao |-> Zero]

\* C17: on the documented three-line example parseCSV returns exactly one
\* record, {2024-01-05, Curso A, 3, 150.0, Instagram, 0}; the second row is
\* dropped.
C17_EndToEndExample ==
    csv = ExampleCsv /\ pc = "done" => ~raised /\ result = <<ExampleRecord>>

C17_Witness ==
    /\ csv = ExampleCsv
    /\ Returned
    /\ Len(records) = 2
    /\ result = <<records[1]>>
    /\ records[2].produto = PRODUTO_INDEFINIDO

(* Degraded inputs and line conventions (specification Spec) *)

\* C16: when no column of the header matches any semantic field, the call
\* returns the empty sequence, whatever the data rows hold.
C16_NoFieldNoRecord ==
    (pc = "done" /\ Len(lines) >= 2 /\ \A f \in Fields : MatchingColumns(f) = {})
        => ~raised /\ result = <<>>

\* a returned call on the header Nome,Preco with a row that holds numbers
C16_Witness ==
    /\ Returned
    /\ Len(lines) >= 2
    /\ lines[1] = HeaderNone
    /\ idx = NoIdx
    /\ \E k \in 2..Len(lines) : lines[k] = RowRefundSold
    /\ Len(records) = Len(lines) - 1
    /\ result = <<>>

----------------------------------------------------------------------------
(* Successive calls of parseCSV (specification SpecCalls).  parseCSV has no *)
(* await: a call runs to completion before the next one starts, so the      *)
(* schedules of several calls are their sequences.  The locals of a         *)
(* finished call are left as they were; a new call has to write each of     *)
(* them before it reads it.                                                 *)

CallHeaders == {HeaderSemi, HeaderComma, HeaderNone}
CallRows == {RowSold, RowQuoted, RowRefundSold}

CallInputs ==
    {<<>>} \cup CallHeaders
        \cup {joinLines(<<h, r>>, <<LF>>) : h \in CallHeaders, r \in CallRows}

InitCalls ==
    /\ csv \in CallInputs
    /\ pc = "start"
    /\ lines = <<>>
    /\ separator = ","
    /\ headers = <<>>
    /\ idx = NoIdx
    /\ records = <<>>
    /\ result = <<>>
    /\ raised = FALSE
    /\ splitIdle
    /\ numIdle
    /\ fetchIdle
    /\ variantIdle
    /\ appIdle

\* line 21: the next call; the array map builds (line 72) is a new one
CallAgain ==
    /\ pc = "done"
    /\ csv' \in CallInputs
    /\ pc' = "start"
    /\ records' = <<>>
    /\ raised' = FALSE
    /\ UNCHANGED <<lines, separator, headers, idx, result>>
    /\ UNCHANGED <<splitVars, numVars, fetchVars, variantVars, appVars>>

NextCalls == Next \/ CallAgain

SpecCalls == InitCalls /\ [][NextCalls]_vars

\* C18: whatever calls came before, a call returns what a lone call on its
\* text returns, which is a function of the text alone; nothing a previous
\* call wrote reaches the result.
C18_CallsIndependent ==
    pc = "done" => ~raised /\ result = parseCSV(csv)

\* a call on a lone comma header, returned after a call that had detected
\* the semicolon and resolved a mapping
C18_Witness ==
    /\ Returned
    /\ csv = HeaderComma
    /\ lines = <<HeaderComma>>
    /\ separator = ";"
    /\ idx # NoIdx
    /\ result = <<>>

----------------------------------------------------------------------------
(* Line conventions (specification Spec) *)

\* the text written in the plain convention: its non-blank lines joined by
\* LF, with no byte-order mark
PlainText == joinLines(NonBlankPieces, <<LF>>)

\* C19: the result is that of the text reduced to its non-blank lines joined
\* by LF, so texts that differ only by a leading byte-order mark, by CR LF
\* for LF, or by empty or white-space lines anywhere have equal results.
C19_OnlyNonBlankLinesCount ==
    Returned => result = parseCSV(PlainText)

\* a returned call on a text with a byte-order mark, CR LF terminators, a
\* line of one space before the header and a blank line among the rows,
\* that returned a record
C19_Witness ==
    /\ Returned
    /\ Len(csv) > 4
    /\ SubSeq(csv, 1, 4) = <<BOM, " ", CR, LF>>
    /\ Len(splitNewlines(stripBOM(csv))) >= Len(lines) + 2
    /\ csv # PlainText
    /\ Len(result) >= 1

----------------------------------------------------------------------------
(* fetchSalesData, lines 6-19 (specification SpecFetch).  pc is the        *)
(* position in the async function; result is the value the promise is      *)
(* resolved with; raised is TRUE when the promise is rejected.              *)

\* the bodies a response can carry
BodyTexts == SalesInputs

\* the test of line 9 left out
statusOkAny(r) == TRUE

\* response.ok, line 9
statusOk(r) == r.ok

InitFetch ==
    /\ pc = "fetch"
    /\ response = NoResponse
    /\ separator = ","
    /\ csvIdle
    /\ splitIdle
    /\ numIdle
    /\ variantIdle
    /\ appIdle

\* line 8: the fetch promise settles; a rejection is thrown inside the try
FetchSettles ==
    /\ pc = "fetch"
    /\ \/ /\ response' = [kind |-> "failed", ok |-> FALSE, body |-> "unread"]
          /\ pc' = "catch"
       \/ /\ \E ok \in BOOLEAN :
                response' = [kind |-> "received", ok |-> ok, body |-> "unread"]
          /\ pc' = "status"
    /\ UNCHANGED <<csv, lines, separator, headers, idx, records, result, raised>>
    /\ UNCHANGED <<splitVars, numVars, variantVars, appVars>>

\* lines 9-11
CheckStatus ==
    /\ pc = "status"
    /\ pc' = IF statusOk(response) THEN "text" ELSE "catch"
    /\ UNCHANGED <<csv, lines, separator, headers, idx, records, result, raised>>
    /\ UNCHANGED <<splitVars, numVars, fetchVars, variantVars, appVars>>

\* line 12: the text promise settles
ReadText ==
    /\ pc = "text"
    /\ \/ /\ response' = [response EXCEPT !.body = "failed"]
          /\ pc' = "catch"
          /\ UNCHANGED csv
       \/ /\ response' = [response EXCEPT !.body = "text"]
          /\ csv' \in BodyTexts
          /\ pc' = "parse"
    /\ UNCHANGED <<lines, separator, headers, idx, records, result, raised>>
    /\ UNCHANGED <<splitVars, numVars, variantVars, appVars>>

\* line 13
ParseBody ==
    /\ pc = "parse"
    /\ IF parseCSVThrows(csv)
       THEN pc' = "catch" /\ UNCHANGED result
       ELSE pc' = "resolved" /\ result' = parseCSV(csv)
    /\ UNCHANGED <<csv, lines, separator, headers, idx, records, raised>>
    /\ UNCHANGED <<splitVars, numVars, fetchVars, variantVars, appVars>>

\* lines 14-18
CatchError ==
    /\ pc = "catch"
    /\ result' = <<>>
    /\ pc' = "resolved"
    /\ UNCHANGED <<csv, lines, separator, headers, idx, records, raised>>
    /\ UNCHANGED <<splitVars, numVars, fetchVars, variantVars, appVars>>

NextFetch == FetchSettles \/ CheckStatus \/ ReadText \/ ParseBody \/ CatchError

SpecFetch == InitFetch /\ [][NextFetch]_vars

\* the fetch failed: no response, a status that is not OK, a body that
\* could not be read, or a body whose parse raised
FetchFailed ==
    \/ response.kind # "received"
    \/ ~response.ok
    \/ response.body # "text"
    \/ parseCSVThrows(csv)

\* C20: the promise of fetchSalesData is never rejected; it is resolved
\* with the empty sequence when the transport fails, the status is not OK,
\* or reading or parsing the body fails, and with parseCSV of the response
\* text otherwise.
C20_FetchNeverRejects ==
    /\ ~raised
    /\ pc = "resolved" => result = IF FetchFailed THEN <<>> ELSE parseCSV(csv)

\* a fetch answered with a status that is not OK, resolved with no record
C20_Witness ==
    /\ pc = "resolved"
    /\ ~raised
    /\ response.kind = "received"
    /\ ~response.ok
    /\ result = <<>>

----------------------------------------------------------------------------
(* The number pipeline and the quote escape as documented (specifications  *)
(* SpecNum and SpecSplit)                                                  *)

\* s with every occurrence of the character c replaced by d
RECURSIVE replaceEvery(_, _, _)
replaceEvery(s, c, d) ==
    IF s = <<>> THEN <<>>
    ELSE <<IF Head(s) = c THEN d ELSE Head(s)>> \o replaceEvery(Tail(s), c, d)

\* the documented pipeline on the whole raw string: every '.' removed, every
\* ',' replaced by '.', every character other than a digit, '.' or '-'
\* removed, the rest parsed as a float, 0 for the empty string or a failed
\* parse
referenceNumber(raw) ==
    IF raw = <<>> THEN Zero
    ELSE orZero(parseFloat(keepOnly(replaceEvery(removeAll(raw, {"."}), ",", "."),
                                    Digit \cup {".", "-"})))

\* C22: parseNumber returns what the documented pipeline returns on the
\* whole raw string, raw strings with more than one comma included.
C22_ReferencePipeline ==
    pc = "return" => num = referenceNumber(val)

\* C23: in splitLine a quote followed by a quote is an escaped quote only
\* while inQuotes is set, where it appends one quote and leaves inQuotes as
\* it is; while inQuotes is clear a quote sets inQuotes and appends nothing.
C23_EscapeOnlyInsideQuotes ==
    [][(pc = "loop" /\ loop.i < Len(line) /\ charAt(line, loop.i) = DQ) =>
           /\ (loop.inQuotes /\ charAt(line, loop.i + 1) = DQ) =>
                  loop' = [loop EXCEPT !.current = Append(@, DQ), !.i = @ + 2]
           /\ ~loop.inQuotes =>
                  loop' = [loop EXCEPT !.inQuotes = TRUE, !.i = @ + 1]]_vars

----------------------------------------------------------------------------
(* The other parseCSV of the service, lines 117-185 (specification         *)
(* SpecVariants): both variants run on the same text.  Its splitLine       *)
(* (lines 128-148), line handling (118-120) and separator detection        *)
(* (123-126) are those of the first variant.                               *)

\* lines 150-155: the quote characters are removed, the others are kept
normalizeHeader2(h) ==
    removeAll(removeAll(normalizeNFD(toLowerCase(h)), CombiningMarks), {DQ, "'"})

RECURSIVE normalizeHeaders2(_)
normalizeHeaders2(cells) ==
    IF cells = <<>> THEN <<>>
    ELSE <<normalizeHeader2(Head(cells))>> \o normalizeHeaders2(Tail(cells))

\* lines 157-164
Candidates2 ==
    [data |-> {<<"d", "a", "t", "a">>},
     produto |-> {<<"p", "r", "o", "d", "u", "t", "o">>, <<"c", "u", "r", "s", "o">>},
     quantidade |-> {<<"q", "u", "a", "n", "t", "i", "d", "a", "d", "e">>, <<"v", "e", "n", "d", "a", "s">>, <<"q", "t", "d">>},
     receita |-> {<<"r", "e", "c", "e", "i", "t", "a">>, <<"v", "a", "l", "o", "r">>, <<"t", "o", "t", "a", "l">>},
     origem |-> {<<"o", "r", "i", "g", "e", "m">>, <<"f", "o", "n", "t", "e">>, <<"u", "t", "m">>},
     custo |-> {<<"c", "u", "s", "t", "o">>}]

matches2(h, f) == \E sub \in Candidates2[f] : includes(h, sub)

RECURSIVE findIndex2From(_, _, _)
findIndex2From(hs, f, k) ==
    IF k >= Len(hs) THEN 0 - 1
    ELSE IF matches2(hs[k + 1], f) THEN k
    ELSE findIndex2From(hs, f, k + 1)

resolveSchema2(hs) == [f \in Fields |-> findIndex2From(hs, f, 0)]

schemaOf2(firstLine, dl) ==
    resolveSchema2(normalizeHeaders2(splitLine(firstLine, dl)))

\* lines 170-174: the strip comes before the replace of the comma
parseNumber2(v) ==
    orZero(parseFloat(replaceFirst(keepOnly(v, Digit \cup {".", "-"}), ",", ".")))

\* lines 176-183
makeRecord2(values, ix) ==
    [data |-> getVal(values, ix.data),
     produto |-> orDefault(getVal(values, ix.produto), PRODUTO_INDEFINIDO),
     quantidade_vendida |-> orZero(parseInt(getVal(values, ix.quantidade))),
     receita |-> parseNumber2(getVal(values, ix.receita)),
     origem |-> orDefault(getVal(values, ix.origem), DIRETO),
     custo_aquisicao |-> parseNumber2(getVal(values, ix.custo))]

\* lines 166-183
mapRows2(ls, dl, ix) ==
    [k \in 1..(Len(ls) - 1) |-> makeRecord2(splitLine(ls[k + 1], dl), ix)]

\* the filter of line 184 with the filter of the first variant in its place
keepRecord2AsFirst(record) ==
    Positive(record.receita) \/ Positive(record.quantidade_vendida)

\* the filter predicate, line 184
keepRecord2(record) ==
    record.produto # PRODUTO_INDEFINIDO \/ Positive(record.receita)

MaxVariantRows == 2

\* 2024-01-06;Curso A;0;0
RowNamedZero == <<"2", "0", "2", "4", "-", "0", "1", "-", "0", "6", ";", "C", "u", "r", "s", "o", " ", "A", ";", "0", ";", "0">>
\* C,0,0
RowItemZero == <<"C", ",", "0", ",", "0">>
\* 2024-01-07;;0;0
RowUnnamedZero == <<"2", "0", "2", "4", "-", "0", "1", "-", "0", "7", ";", ";", "0", ";", "0">>
\* 2024-01-08;Curso B;0;0,50
RowHalf == <<"2", "0", "2", "4", "-", "0", "1", "-", "0", "8", ";", "C", "u", "r", "s", "o", " ", "B", ";", "0", ";", "0", ",", "5", "0">>

VariantHeaders == {HeaderSemi, HeaderComma}
VariantRows == {RowNamedZero, RowItemZero, RowUnnamedZero, RowHalf, RowSold, RowRefund}

VariantInputs ==
    {joinLines(<<h>> \o rows, <<LF>>) :
        h \in VariantHeaders, rows \in Strings(VariantRows, MaxVariantRows)}

InitVariants ==
    /\ csv \in VariantInputs
    /\ pc = "start"
    /\ lines = <<>>
    /\ separator = ","
    /\ headers = <<>>
    /\ idx = NoIdx
    /\ records = <<>>
    /\ result = <<>>
    /\ raised = FALSE
    /\ splitIdle
    /\ numIdle
    /\ fetchIdle
    /\ variantIdle
    /\ appIdle

\* lines 117-185: the other variant on the same text
ParseVariant2 ==
    /\ pc = "done"
    /\ LET ls == nonBlankLines(csv) IN
       IF tooFewLines(ls)
       THEN variant' = NoVariant
       ELSE LET dl == detectSeparator(ls[1])
                made == mapRows2(ls, dl, schemaOf2(ls[1], dl))
            IN  variant' = [records |-> made, result |-> SelectSeq(made, keepRecord2)]
    /\ pc' = "both"
    /\ UNCHANGED <<csv, lines, separator, headers, idx, records, result, raised>>
    /\ UNCHANGED <<splitVars, numVars, fetchVars, appVars>>

NextVariants == Next \/ ParseVariant2

SpecVariants == InitVariants /\ [][NextVariants]_vars

\* a record with a named product, revenue 0 and quantity 0
NamedZero(r) ==
    r.produto # PRODUTO_INDEFINIDO /\ r.receita = Zero /\ r.quantidade_vendida = Zero

\* the record is among the returned ones
ReturnedIn(r, out) == \E j \in 1..Len(out) : out[j] = r

BothReturned == pc = "both" /\ ~raised /\ Len(variant.records) = Len(records)

----------------------------------------------------------------------------
(* The quote state across lines (specification Spec) *)

\* C26: inQuotes is clear at the start of every line, so the record of a row
\* is the record that row gives when it is the only row after the header,
\* whatever quotes the rows before it left open.
C26_QuoteStateNotCarried ==
    pc \in {"map", "done"} =>
        \A k \in 1..Len(records) :
            LET alone == <<NonBlankPieces[1], NonBlankPieces[k + 1]>>
                dl == detectSeparator(alone[1])
            IN  records[k] = mapRows(alone, dl, schemaOf(alone[1], dl))[1]

\* a returned call whose first row leaves a quote open and whose second row
\* still has its quoted revenue 10,5 read as one cell
C26_Witness ==
    /\ Returned
    /\ lines = <<HeaderComma, RowOpenQuote, RowQuoted>>
    /\ splitRun(splitInit, lines[2], separator).inQuotes
    /\ records[2].produto = <<"A">>
    /\ records[2].receita = [m |-> 105, e |-> 1]
    /\ result = <<records[1], records[2]>>

----------------------------------------------------------------------------
(* App, src/App.tsx: the component state, the load effect, the upload *)

\* the printable ASCII code units in increasing order (the grave accent
\* left out): Array.prototype.sort without a comparator orders strings by
\* code unit
CodeUnits ==
    <<" ", "!", "\"", "#", "$", "%", "&", "'", "(", ")", "*", "+", ",", "-", ".", "/",
      "0", "1", "2", "3", "4", "5", "6", "7", "8", "9", ":", ";", "<", "=", ">", "?",
      "@", "A", "B", "C", "D", "E", "F", "G", "H", "I", "J", "K", "L", "M", "N", "O",
      "P", "Q", "R", "S", "T", "U", "V", "W", "X", "Y", "Z", "[", "\\", "]", "^", "_",
      "a", "b", "c", "d", "e", "f", "g", "h", "i", "j", "k", "l", "m", "n", "o",
      "p", "q", "r", "s", "t", "u", "v", "w", "x", "y", "z", "{", "|", "}", "~">>

\* the position of each code unit in that order
codeUnitOf == [c \in {CodeUnits[i] : i \in 1..Len(CodeUnits)} |->
                  CHOOSE i \in 1..Len(CodeUnits) : CodeUnits[i] = c]

codeUnit(c) == codeUnitOf[c]

\* s sorts before t, or is t
RECURSIVE sortsBefore(_, _)
sortsBefore(s, t) ==
    IF s = <<>> THEN TRUE
    ELSE IF t = <<>> THEN FALSE
    ELSE IF Head(s) = Head(t) THEN sortsBefore(Tail(s), Tail(t))
    ELSE codeUnit(Head(s)) < codeUnit(Head(t))

\* .sort() of an array of distinct strings
RECURSIVE sortStrings(_)
sortStrings(S) ==
    IF S = {} THEN <<>>
    ELSE LET least == CHOOSE s \in S : \A t \in S : sortsBefore(s, t)
         IN  <<least>> \o sortStrings(S \ {least})

\* lines 56 and 78: the distinct product names, empty names dropped, sorted
uniqueProds(rs) == sortStrings({rs[k].produto : k \in 1..Len(rs)} \ {<<>>})

\* lines 57-58 and 79-80: the comparison selections follow the new data
selectCompare(a, rs) ==
    LET u == uniqueProds(rs) IN
    [a EXCEPT !.compareA = IF Len(u) >= 1 THEN u[1] ELSE <<>>,
              !.compareB = IF Len(u) >= 2 THEN u[2]
                           ELSE IF Len(u) >= 1 THEN u[1] ELSE <<>>]

\* lines 104-107, without the leading 'All'
products(a) == uniqueProds(a.data)

\* lines 111-114 for a date written YYYY-MM-DD with a day inside the month
\* in every time zone; the empty string for an empty date
monthKey(date) == IF Len(date) >= 7 THEN SubSeq(date, 1, 7) ELSE <<>>

\* lines 109-117, without the leading 'All'
months(a) == {monthKey(a.data[k].data) : k \in 1..Len(a.data)} \ {<<>>}

\* line 244: the loading screen replaces the whole interface
loadingScreen(a) == a.loading /\ a.data = <<>>

\* line 51 with the test removed
shouldFetchAlways(a) == TRUE

\* line 51
shouldFetch(a) == ~a.isManualUpload

\* line 64: the effect runs again when one of its dependencies changed
depsChanged(a, b) ==
    a.refreshKey # b.refreshKey \/ a.isManualUpload # b.isManualUpload

\* lines 49-64 up to the await: the render from a to b runs the effect
effectStarts(a, b) == depsChanged(a, b) /\ shouldFetch(b)

\* line 52
afterEffect(a, b) == IF effectStarts(a, b) THEN [b EXCEPT !.loading = TRUE] ELSE b

\* line 282
refreshDisabled(a) == a.isManualUpload \/ a.loading

\* lines 54-60 with setLoading(false) moved inside the test of line 55
loadDoneInside(a, res) ==
    IF Len(res) > 0
    THEN [selectCompare([a EXCEPT !.data = res], res) EXCEPT !.loading = FALSE]
    ELSE [a EXCEPT !.data = res]

\* lines 54-60: the continuation of loadData after the await
loadDone(a, res) ==
    LET b == [a EXCEPT !.data = res]
        c == IF Len(res) > 0 THEN selectCompare(b, res) ELSE b
    IN  [c EXCEPT !.loading = FALSE]

\* lines 77-81 and 91
uploadAccepted(a, parsed) ==
    [selectCompare([a EXCEPT !.data = parsed], parsed)
        EXCEPT !.isManualUpload = TRUE, !.loading = FALSE]

\* the rejection that also empties the data
uploadRejectedClearing(a) ==
    [a EXCEPT !.data = <<>>, !.fileName = Null, !.loading = FALSE]

\* lines 84, 89 and 91
uploadRejected(a) == [a EXCEPT !.fileName = Null, !.loading = FALSE]

\* line 83 and line 88: the two alert messages
MsgNoValidData == "Nao foi possivel extrair dados validos desta planilha."
MsgCriticalError == "Erro critico ao processar o arquivo CSV."

MaxRefresh == 2
MaxUploads == 1

AppSheetHeader == <<"D", "a", "t", "a", ";", "P", "r", "o", "d", "u", "t", "o", ";", "Q", "t", "d", ";", "R", "e", "c", "e", "i", "t", "a">>
RowJanA == <<"2", "0", "2", "4", "-", "0", "1", "-", "1", "5", ";", "A", ";", "1", ";", "1", "0">>
RowFebB == <<"2", "0", "2", "4", "-", "0", "2", "-", "1", "5", ";", "B", ";", "2", ";", "2", "0">>
NameB == <<"b", ".", "c", "s", "v">>
NameEmpty == <<"e", "m", "p", "t", "y", ".", "c", "s", "v">>
NameBad == <<"b", "a", "d", ".", "c", "s", "v">>

SheetAB == joinLines(<<AppSheetHeader, RowJanA, RowFebB>>, <<LF>>)
SheetB == joinLines(<<AppSheetHeader, RowFebB>>, <<LF>>)

\* what the published sheet may hold when a fetch reads it
RemoteTexts == {SheetAB, SheetB}

\* the files the user may choose, each with the text its read gives (line
\* 73): one accepted, one without rows, one whose read gives no string
Files ==
    {[name |-> NameB, text |-> SheetB],
     [name |-> NameEmpty, text |-> AppSheetHeader],
     [name |-> NameBad, text |-> undefinedValue]}

\* what fetchSalesData may resolve to: the parse of the sheet, or the empty
\* array of its catch
FetchOutcomes == {<<>>} \cup {parseCSV(t) : t \in {u \in RemoteTexts : ~parseCSVThrows(u)}}

\* line 75: the ways the call parseCSV(text) of the imported service can
\* end. Without a string the parseCSV of lines 21-96 returns [] at line 22
\* and the parseCSV of lines 117-185 raises at line 118
parseOutcomes(text) ==
    IF text = undefinedValue
    THEN {[throws |-> TRUE, parsedData |-> <<>>], [throws |-> FALSE, parsedData |-> <<>>]}
    ELSE IF parseCSVThrows(text) THEN {[throws |-> TRUE, parsedData |-> <<>>]}
    ELSE {[throws |-> FALSE, parsedData |-> parseCSV(text)]}

\* line 75 for each of the files
parsedFile == [f \in Files |-> parseOutcomes(f.text)]

\* the reads in flight are a bag of files: each completes on its own
oneRead(file) == SetToBag({file})

\* lines 33-47 and the first run of the effect: the mount
InitApp ==
    /\ app = AppInitial
    /\ pending = [fetches |-> 1, reads |-> <<>>, started |-> 0]
    /\ shown = <<>>
    /\ pc = "app"
    /\ separator = ","
    /\ csvIdle
    /\ splitIdle
    /\ numIdle
    /\ fetchIdle
    /\ variantIdle

\* lines 242 and 280-287: a click on the refresh button, and the effect
HandleRefresh ==
    /\ ~loadingScreen(app)
    /\ ~refreshDisabled(app)
    /\ app.refreshKey < MaxRefresh
    /\ LET b == [app EXCEPT !.refreshKey = @ + 1] IN
       /\ app' = afterEffect(app, b)
       /\ pending' = [pending EXCEPT !.fetches = IF effectStarts(app, b) THEN @ + 1 ELSE @]
    /\ UNCHANGED shown
    /\ UNCHANGED <<csvVars, splitVars, numVars, fetchVars, variantVars>>

\* lines 53-60: a fetch delivers its result
FetchCompletes ==
    /\ pending.fetches > 0
    /\ \E res \in FetchOutcomes :
           LET b == loadDone(app, res) IN
           /\ app' = afterEffect(app, b)
           /\ pending' = [pending EXCEPT
                  !.fetches = IF effectStarts(app, b) THEN @ ELSE @ - 1]
    /\ UNCHANGED shown
    /\ UNCHANGED <<csvVars, splitVars, numVars, fetchVars, variantVars>>

\* lines 66-71 and 93, through the label of lines 273-276: a file is chosen
HandleFileUpload ==
    /\ ~loadingScreen(app)
    /\ ~app.isManualUpload
    /\ pending.started < MaxUploads
    /\ \E file \in Files :
           /\ app' = [app EXCEPT !.fileName = file.name, !.loading = TRUE]
           /\ pending' = [pending EXCEPT !.reads = @ (+) oneRead(file),
                                         !.started = @ + 1]
    /\ UNCHANGED shown
    /\ UNCHANGED <<csvVars, splitVars, numVars, fetchVars, variantVars>>

\* lines 72-92: what reader.onload of the read of file leaves when the call
\* of line 75 ends as parse, the effect included
onload(a, p, sh, file, parse) ==
    LET rest == [p EXCEPT !.reads = @ (-) oneRead(file)]
    IN  IF parse.throws
        THEN [app |-> uploadRejected(a), pending |-> rest,
              shown |-> Append(sh, MsgCriticalError)]
        ELSE IF Len(parse.parsedData) > 0
        THEN LET b == uploadAccepted(a, parse.parsedData) IN
             [app |-> afterEffect(a, b),
              pending |-> [rest EXCEPT
                  !.fetches = IF effectStarts(a, b) THEN @ + 1 ELSE @],
              shown |-> sh]
        ELSE [app |-> uploadRejected(a), pending |-> rest,
              shown |-> Append(sh, MsgNoValidData)]

\* lines 72-92: reader.onload of one of the reads in flight
FileReadCompletes ==
    /\ \E file \in BagToSet(pending.reads) :
           \E parse \in parsedFile[file] :
               /\ app' = onload(app, pending, shown, file, parse).app
               /\ pending' = onload(app, pending, shown, file, parse).pending
               /\ shown' = onload(app, pending, shown, file, parse).shown
    /\ UNCHANGED <<csvVars, splitVars, numVars, fetchVars, variantVars>>

\* lines 97-102 through the button of line 271, and the effect
ResetToLive ==
    /\ ~loadingScreen(app)
    /\ app.isManualUpload
    /\ app.refreshKey < MaxRefresh
    /\ LET b == [app EXCEPT !.isManualUpload = FALSE, !.fileName = Null,
                            !.refreshKey = @ + 1] IN
       /\ app' = afterEffect(app, b)
       /\ pending' = [pending EXCEPT !.fetches = IF effectStarts(app, b) THEN @ + 1 ELSE @]
    /\ UNCHANGED shown
    /\ UNCHANGED <<csvVars, splitVars, numVars, fetchVars, variantVars>>

\* line 295: the product select offers 'All' and the products of the data
SetProductFilter ==
    /\ ~loadingScreen(app)
    /\ \E p \in {All} \cup {products(app)[k] : k \in 1..Len(products(app))} :
           /\ p # app.productFilter
           /\ app' = [app EXCEPT !.productFilter = p]
    /\ UNCHANGED <<pending, shown>>
    /\ UNCHANGED <<csvVars, splitVars, numVars, fetchVars, variantVars>>

\* line 301: the month select offers 'All' and the months of the data
SetMonthFilter ==
    /\ ~loadingScreen(app)
    /\ \E m \in {All} \cup months(app) :
           /\ m # app.monthFilter
           /\ app' = [app EXCEPT !.monthFilter = m]
    /\ UNCHANGED <<pending, shown>>
    /\ UNCHANGED <<csvVars, splitVars, numVars, fetchVars, variantVars>>

\* lines 329-334: the first comparison select offers the products of the data
SetCompareA ==
    /\ ~loadingScreen(app)
    /\ \E p \in {products(app)[k] : k \in 1..Len(products(app))} :
           /\ p # app.compareA
           /\ app' = [app EXCEPT !.compareA = p]
    /\ UNCHANGED <<pending, shown>>
    /\ UNCHANGED <<csvVars, splitVars, numVars, fetchVars, variantVars>>

\* lines 337-342: the second comparison select
SetCompareB ==
    /\ ~loadingScreen(app)
    /\ \E p \in {products(app)[k] : k \in 1..Len(products(app))} :
           /\ p # app.compareB
           /\ app' = [app EXCEPT !.compareB = p]
    /\ UNCHANGED <<pending, shown>>
    /\ UNCHANGED <<csvVars, splitVars, numVars, fetchVars, variantVars>>

NextApp ==
    \/ HandleRefresh
    \/ FetchCompletes
    \/ HandleFileUpload
    \/ FileReadCompletes
    \/ ResetToLive
    \/ SetProductFilter
    \/ SetMonthFilter
    \/ SetCompareA
    \/ SetCompareB

SpecApp == InitApp /\ [][NextApp]_vars

\* the same steps, every started fetch and file read completing
SpecAppFair ==
    /\ InitApp
    /\ [][NextApp]_vars
    /\ WF_vars(FetchCompletes)
    /\ WF_vars(FileReadCompletes)

\* a fetch was started by this step
FetchStarted == pending'.fetches > pending.fetches

\* a fetch delivered its result in this step
FetchDelivered == pending'.fetches < pending.fetches

\* the read of file, one of the reads in flight, completed in this step
ReadDone(file) ==
    /\ BagIn(file, pending.reads)
    /\ pending'.reads = pending.reads (-) oneRead(file)

\* parseCSV raises on what the read gave or returns the empty array
Rejected(text) ==
    IF text = undefinedValue \/ parseCSVThrows(text) THEN TRUE
    ELSE parseCSV(text) = <<>>

\* nothing is in flight
Quiescent == pending.fetches = 0 /\ BagToSet(pending.reads) = {}

\* C21: once an upload has been accepted, a fetch that completes afterwards
\* is discarded: it replaces neither the data nor the comparison selections.
C21_StaleFetchDiscarded ==
    [][(app.isManualUpload /\ FetchDelivered) =>
           /\ app'.data = app.data
           /\ app'.compareA = app.compareA
           /\ app'.compareB = app.compareB]_vars

\* C24: a rejected upload leaves data, isManualUpload, compareA, compareB and
\* both filters as they were, resets fileName to null and loading to false,
\* and shows one message.
C24_RejectedUploadFrame ==
    [][\A file \in Files :
           (ReadDone(file) /\ Rejected(file.text)) =>
               /\ app'.data = app.data
               /\ app'.isManualUpload = app.isManualUpload
               /\ app'.compareA = app.compareA
               /\ app'.compareB = app.compareB
               /\ app'.productFilter = app.productFilter
               /\ app'.monthFilter = app.monthFilter
               /\ app'.fileName = Null
               /\ app'.loading = FALSE
               /\ Len(shown') = Len(shown) + 1
               /\ SubSeq(shown', 1, Len(shown)) = shown
               /\ shown'[Len(shown')] \in {MsgNoValidData, MsgCriticalError}]_vars

\* a file without rows was rejected, over loaded data and chosen filters
C24_Witness ==
    /\ shown = <<MsgNoValidData>>
    /\ BagToSet(pending.reads) = {}
    /\ app.fileName = Null
    /\ ~app.loading
    /\ app.data # <<>>
    /\ app.productFilter # All
    /\ app.monthFilter # All
    /\ app.compareA # uniqueProds(app.data)[1]

\* C27: while isManualUpload is true no fetch is started: the refresh button
\* does nothing, the effect skips the fetch, and the only step from a manual
\* state that starts a fetch is resetToLive, which clears isManualUpload.
C27_NoFetchWhileManual ==
    /\ [](app.isManualUpload => ~ENABLED HandleRefresh)
    /\ [][FetchStarted => ~app'.isManualUpload]_vars
    /\ [][(app.isManualUpload /\ FetchStarted) =>
              /\ app'.fileName = Null
              /\ app'.refreshKey = app.refreshKey + 1]_vars

\* resetToLive after an accepted upload: the uploaded data still shown, the
\* flag cleared and the fetch started again
C27_Witness ==
    /\ ~app.isManualUpload
    /\ app.fileName = Null
    /\ app.refreshKey >= 1
    /\ pending.started = 1
    /\ BagToSet(pending.reads) = {}
    /\ shown = <<>>
    /\ pending.fetches >= 1
    /\ app.loading

\* C28: at most one fetch is in flight: no fetch is started while an
\* earlier one has not yet delivered its result.
C28_OneFetchInFlight == pending.fetches <= 1

\* C29: when every fetch and file read completes, loading set to true is
\* eventually set back to false; and whenever nothing is in flight, loading
\* is false.
C29_LoadingEnds ==
    /\ [](Quiescent => ~app.loading)
    /\ (app.loading ~> ~app.loading)

\* loading is back to false after a refresh and an upload whose parse raised
C29_Witness ==
    /\ Quiescent
    /\ ~app.loading
    /\ app.refreshKey >= 1
    /\ pending.started >= 1
    /\ shown = <<MsgCriticalError>>

\* C30: the product filter is 'All' or the name of a product of the data.
C30_FilterNamesLoadedProduct ==
    \/ app.productFilter = All
    \/ \E k \in 1..Len(app.data) : app.data[k].produto = app.productFilter

====
